---- MODULE Spec2Model ----
(***************************************************************************)
(* Text Translator & Enhancer (VS Code extension).                         *)
(*                                                                         *)
(* The model covers the string detector (stringDetector.ts), the command   *)
(* handlers and event listeners of the extension entry point               *)
(* (extension.ts), the tree provider (stringTreeProvider.ts) and the       *)
(* transform flows (translationManager.ts).                                *)
(*                                                                         *)
(* Text is a TLA+ string (a sequence of characters); positions are the     *)
(* zero-based positions of the source.                                     *)
(***************************************************************************)
EXTENDS Integers, Sequences, FiniteSets, TLC

VARIABLES
    docs,              \* document id -> [text, languageId] (vscode.TextDocument)
    activeEditor,      \* vscode.window.activeTextEditor: a document id, or NoEditor
    autoDetect,        \* configuration textTranslator.autoDetectStrings
    faults,            \* whether the host may make a scan step throw
    detectedStrings,   \* StringDetector.detectedStrings
    detectionTimeout,  \* StringDetector.detectionTimeout: a timer id, or NoTimer
    timers,            \* the host's pending setTimeout callbacks
    now,               \* the host's clock, in ms
    treeItems,         \* the rows last served by StringTreeProvider.getChildren
    treeStale,         \* onDidChangeTreeData fired and not yet served
    notification,      \* the last message shown in the host's window
    flows,             \* transform flows waiting on the user or on a delay
    lastScan,          \* history: the most recent detectStrings call
    lastCmd,           \* history: the last command invoked without editor or text
    debounce           \* history: the last qualifying edit and the timer runs since

vars == <<docs, activeEditor, autoDetect, faults, detectedStrings, detectionTimeout,
          timers, now, treeItems, treeStale, notification, flows, lastScan,
          lastCmd, debounce>>

---------------------------------------------------------------------------
(* Strings                                                                 *)

\* the back quote character (a string literal cannot hold a lone one)
BackTick == SubSeq("`'", 1, 1)

\* s.charAt(i), zero-based
CharAt(s, i) == SubSeq(s, i + 1, i + 1)

\* s.slice(a, b), zero-based, b exclusive
Slice(s, a, b) == SubSeq(s, a + 1, b)

LowerCase == {"a", "b", "c", "d", "e", "f", "g", "h", "i", "j", "k", "l", "m",
              "n", "o", "p", "q", "r", "s", "t", "u", "v", "w", "x", "y", "z"}
UpperCase == {"A", "B", "C", "D", "E", "F", "G", "H", "I", "J", "K", "L", "M",
              "N", "O", "P", "Q", "R", "S", "T", "U", "V", "W", "X", "Y", "Z"}
Letter == LowerCase \cup UpperCase
Digit == {"0", "1", "2", "3", "4", "5", "6", "7", "8", "9"}
\* the regex class \w
WordChar == Letter \cup Digit \cup {"_"}
\* the regex class \s (the members a document line can hold)
WhiteSpace == {" ", "\t", "\r", "\n", "\f"}
\* what the regex class . does not match
LineTerminator == {"\n", "\r"}

\* every character of s[a..b) is in class
AllIn(s, a, b, class) == \A i \in a..(b - 1) : CharAt(s, i) \in class

RECURSIVE TrimStart(_)
TrimStart(s) ==
    IF Len(s) > 0 /\ CharAt(s, 0) \in WhiteSpace
    THEN TrimStart(Slice(s, 1, Len(s)))
    ELSE s

RECURSIVE TrimEnd(_)
TrimEnd(s) ==
    IF Len(s) > 0 /\ CharAt(s, Len(s) - 1) \in WhiteSpace
    THEN TrimEnd(Slice(s, 0, Len(s) - 1))
    ELSE s

\* String.prototype.trim
Trim(s) == TrimEnd(TrimStart(s))

RECURSIVE IndexOfFrom(_, _, _)
\* s.indexOf(c, i) for a one-character c
IndexOfFrom(s, c, i) ==
    IF i >= Len(s) THEN -1
    ELSE IF CharAt(s, i) = c THEN i
    ELSE IndexOfFrom(s, c, i + 1)

RECURSIVE SplitLines(_)
\* text.split('\n')
SplitLines(text) ==
    LET i == IndexOfFrom(text, "\n", 0) IN
    IF i = -1 THEN <<text>>
    ELSE <<Slice(text, 0, i)>> \o SplitLines(Slice(text, i + 1, Len(text)))

---------------------------------------------------------------------------
(* The "looks like code" filter                                            *)

\* /^[a-zA-Z_][a-zA-Z0-9_]*$/
IsIdentifier(t) ==
    /\ Len(t) >= 1
    /\ CharAt(t, 0) \in Letter \cup {"_"}
    /\ AllIn(t, 1, Len(t), WordChar)

\* /^\d+$/
IsDigits(t) == Len(t) >= 1 /\ AllIn(t, 0, Len(t), Digit)

\* /^[\w\-\.]+\.[a-zA-Z]{2,4}$/
IsFileLike(t) ==
    \E k \in 2..4 :
        /\ Len(t) >= k + 2
        /\ AllIn(t, Len(t) - k, Len(t), Letter)
        /\ CharAt(t, Len(t) - k - 1) = "."
        /\ AllIn(t, 0, Len(t) - k - 1, WordChar \cup {"-", "."})

\* /^[#@$][\w\-]+/
IsSelectorLike(t) ==
    /\ Len(t) >= 2
    /\ CharAt(t, 0) \in {"#", "@", "$"}
    /\ CharAt(t, 1) \in WordChar \cup {"-"}

\* /[{}\[\]();,]/
HasCodePunctuation(t) ==
    \E i \in 0..(Len(t) - 1) :
        CharAt(t, i) \in {"{", "}", "[", "]", "(", ")", ";", ","}

\* /^\s*$/
IsBlank(t) == AllIn(t, 0, Len(t), WhiteSpace)

\* /^[\w\s]*:\s*[\w\s]*$/
IsKeyValue(t) ==
    \E i \in 0..(Len(t) - 1) :
        /\ CharAt(t, i) = ":"
        /\ AllIn(t, 0, i, WordChar \cup WhiteSpace)
        /\ AllIn(t, i + 1, Len(t), WordChar \cup WhiteSpace)

\* /^\w+\(.*\)$/
IsFunctionCall(t) ==
    \E i \in 1..(Len(t) - 2) :
        /\ AllIn(t, 0, i, WordChar)
        /\ CharAt(t, i) = "("
        /\ CharAt(t, Len(t) - 1) = ")"
        /\ \A j \in (i + 1)..(Len(t) - 2) : CharAt(t, j) \notin LineTerminator

\* /^[<>]=?|[!=]=|[&|]{2}/
HasOperator(t) ==
    \/ Len(t) >= 1 /\ CharAt(t, 0) \in {"<", ">"}
    \/ \E i \in 0..(Len(t) - 2) :
           CharAt(t, i) \in {"!", "="} /\ CharAt(t, i + 1) = "="
    \/ \E i \in 0..(Len(t) - 2) :
           CharAt(t, i) \in {"&", "|"} /\ CharAt(t, i + 1) \in {"&", "|"}

\* codePatterns.some(pattern => pattern.test(text))
LooksLikeCode(text) ==
    \/ IsIdentifier(text)
    \/ IsDigits(text)
    \/ IsFileLike(text)
    \/ IsSelectorLike(text)
    \/ HasCodePunctuation(text)
    \/ IsBlank(text)
    \/ IsKeyValue(text)
    \/ IsFunctionCall(text)
    \/ HasOperator(text)

---------------------------------------------------------------------------
(* The string patterns: RegExp.prototype.exec on each of them              *)

\* exec found nothing (null)
NoMatch == [index |-> -1, end |-> -1, g1 |-> "", g2 |-> "", g3 |-> ""]

RECURSIVE ScanEscaped(_, _, _, _)
\* The body ([^q\\]*(\\.[^q\\]*)*) followed by q, from position p: the position
\* of the closing q (-1: none) and where the last \\. repetition began.  Every
\* character leaves the matcher one way on, so there is nothing to backtrack to.
ScanEscaped(line, q, p, esc) ==
    IF p >= Len(line) THEN [close |-> -1, esc |-> esc]
    ELSE IF CharAt(line, p) = q THEN [close |-> p, esc |-> esc]
    ELSE IF CharAt(line, p) = "\\"
         THEN IF p + 1 < Len(line) /\ CharAt(line, p + 1) \notin LineTerminator
              THEN ScanEscaped(line, q, p + 2, p)
              ELSE [close |-> -1, esc |-> esc]
    ELSE ScanEscaped(line, q, p + 1, esc)

RECURSIVE ExecEscaped(_, _, _)
\* /q([^q\\]*(\\.[^q\\]*)*)q/g from lastIndex s
ExecEscaped(line, q, s) ==
    IF s >= Len(line) THEN NoMatch
    ELSE IF CharAt(line, s) # q THEN ExecEscaped(line, q, s + 1)
    ELSE LET r == ScanEscaped(line, q, s + 1, -1) IN
         IF r.close = -1 THEN ExecEscaped(line, q, s + 1)
         ELSE [index |-> s, end |-> r.close + 1,
               g1 |-> Slice(line, s + 1, r.close),
               g2 |-> IF r.esc = -1 THEN "" ELSE Slice(line, r.esc, r.close),
               g3 |-> ""]

\* line holds q q q at position p
TripleAt(line, q, p) ==
    /\ p + 3 <= Len(line)
    /\ CharAt(line, p) = q /\ CharAt(line, p + 1) = q /\ CharAt(line, p + 2) = q

RECURSIVE FindTriple(_, _, _)
\* the first position >= p that holds q q q (-1: none)
FindTriple(line, q, p) ==
    IF p + 3 > Len(line) THEN -1
    ELSE IF TripleAt(line, q, p) THEN p
    ELSE FindTriple(line, q, p + 1)

RECURSIVE ExecTriple(_, _, _)
\* /qqq([\s\S]*?)qqq/g from lastIndex s: the lazy body ends at the first qqq
ExecTriple(line, q, s) ==
    LET open == FindTriple(line, q, s) IN
    IF open = -1 THEN NoMatch
    ELSE LET close == FindTriple(line, q, open + 3) IN
         IF close = -1 THEN NoMatch
         ELSE [index |-> open, end |-> close + 3,
               g1 |-> Slice(line, open + 3, close), g2 |-> "", g3 |-> ""]

RECURSIVE VerbatimClose(_, _)
\* The body ([^"]*(?:""[^"]*)*) followed by ", from position p: the position of
\* the closing quote (-1: none).  The greedy repetition takes a doubled quote
\* as part of the body, and gives it back when nothing closes the body later.
VerbatimClose(line, p) ==
    LET q == IndexOfFrom(line, "\"", p) IN
    IF q = -1 THEN -1
    ELSE IF q + 1 < Len(line) /\ CharAt(line, q + 1) = "\""
         THEN LET r == VerbatimClose(line, q + 2) IN
              IF r = -1 THEN q ELSE r
    ELSE q

RECURSIVE ExecVerbatim(_, _)
\* /@"([^"]*(?:""[^"]*)*)"/g from lastIndex s
ExecVerbatim(line, s) ==
    IF s + 2 > Len(line) THEN NoMatch
    ELSE IF CharAt(line, s) # "@" \/ CharAt(line, s + 1) # "\""
         THEN ExecVerbatim(line, s + 1)
    ELSE LET close == VerbatimClose(line, s + 2) IN
         IF close = -1 THEN ExecVerbatim(line, s + 1)
         ELSE [index |-> s, end |-> close + 1,
               g1 |-> Slice(line, s + 2, close), g2 |-> "", g3 |-> ""]

\* regex.exec(line) with regex.lastIndex = lastIndex
Exec(regex, line, lastIndex) ==
    CASE regex.kind = "escaped" -> ExecEscaped(line, regex.delim, lastIndex)
      [] regex.kind = "triple" -> ExecTriple(line, regex.delim, lastIndex)
      [] regex.kind = "verbatim" -> ExecVerbatim(line, lastIndex)

\* a regex literal with the g flag, as evaluated: its cursor is at 0
EscapedRegex(q) == [kind |-> "escaped", delim |-> q, global |-> TRUE, lastIndex |-> 0]
TripleRegex(q) == [kind |-> "triple", delim |-> q, global |-> TRUE, lastIndex |-> 0]
VerbatimRegex == [kind |-> "verbatim", delim |-> "\"", global |-> TRUE, lastIndex |-> 0]

BasePatterns ==
    << [name |-> "double", regex |-> EscapedRegex("\"")],
       [name |-> "single", regex |-> EscapedRegex("'")] >>

\* every languageId gets the template pattern
GetStringPatternsUngated(languageId) ==
    BasePatterns \o << [name |-> "template", regex |-> EscapedRegex(BackTick)] >>

\* the verbatim pattern is left out for csharp and fsharp
GetStringPatternsNoVerbatim(languageId) ==
    IF languageId \in {"javascript", "typescript", "javascriptreact", "typescriptreact"}
    THEN BasePatterns \o << [name |-> "template", regex |-> EscapedRegex(BackTick)] >>
    ELSE BasePatterns

GetStringPatterns(languageId) ==
    IF languageId \in {"javascript", "typescript", "javascriptreact", "typescriptreact"}
    THEN BasePatterns \o << [name |-> "template", regex |-> EscapedRegex(BackTick)] >>
    ELSE IF languageId = "python"
    THEN BasePatterns \o << [name |-> "triple-double", regex |-> TripleRegex("\"")],
                            [name |-> "triple-single", regex |-> TripleRegex("'")] >>
    ELSE IF languageId \in {"csharp", "fsharp"}
    THEN BasePatterns \o << [name |-> "verbatim", regex |-> VerbatimRegex] >>
    ELSE BasePatterns

---------------------------------------------------------------------------
(* StringDetector.extractStringsFromLine                                   *)

\* match[1] || match[2] || match[3]: the first group that is not empty (an
\* undefined group and an empty one are both falsy, and modelled as "")
StringContent(match) ==
    IF match.g1 # "" THEN match.g1
    ELSE IF match.g2 # "" THEN match.g2
    ELSE match.g3

\* the content alone decides: only a content with no character at all is skipped
TooShortNoTrim(stringContent) == stringContent = ""

\* !stringContent || stringContent.trim().length < 2
TooShort(stringContent) ==
    stringContent = "" \/ Len(Trim(stringContent)) < 2

\* the object pushed for an accepted match
MakeDetected(match, stringContent, lineIndex, name, languageId) ==
    [text |-> stringContent, line |-> lineIndex,
     startChar |-> match.index, endChar |-> match.index + (match.end - match.index),
     quoteType |-> name, languageId |-> languageId]

RECURSIVE MatchLoopStopsAtRejected(_, _, _, _, _)
\* the loop leaves the pattern at the first match it rejects (break for continue)
MatchLoopStopsAtRejected(pattern, line, lineIndex, languageId, lastIndex) ==
    LET match == Exec(pattern.regex, line, lastIndex) IN
    IF match.index = -1 THEN <<>>
    ELSE LET stringContent == StringContent(match) IN
         IF TooShort(stringContent) \/ LooksLikeCode(stringContent)
         THEN <<>>
         ELSE <<MakeDetected(match, stringContent, lineIndex, pattern.name, languageId)>>
              \o MatchLoopStopsAtRejected(pattern, line, lineIndex, languageId,
                                          match.end)

RECURSIVE MatchLoop(_, _, _, _, _)
\* while ((match = pattern.regex.exec(line)) !== null) { ... }, the regex
\* cursor at lastIndex: exec of a global regex leaves the cursor at the end of
\* its match
MatchLoop(pattern, line, lineIndex, languageId, lastIndex) ==
    LET match == Exec(pattern.regex, line, lastIndex) IN
    IF match.index = -1 THEN <<>>
    ELSE LET stringContent == StringContent(match)
             cursor == IF pattern.regex.global THEN match.end ELSE lastIndex
         IN  IF TooShort(stringContent)
             THEN MatchLoop(pattern, line, lineIndex, languageId, cursor)
             ELSE IF LooksLikeCode(stringContent)
             THEN MatchLoop(pattern, line, lineIndex, languageId, cursor)
             ELSE <<MakeDetected(match, stringContent, lineIndex, pattern.name, languageId)>>
                  \o (IF pattern.regex.global
                      THEN MatchLoop(pattern, line, lineIndex, languageId, cursor)
                      ELSE <<>>)

RECURSIVE ForEachPattern(_, _, _, _, _)
\* for (const pattern of patterns) { ... }, from the k-th pattern on
ForEachPattern(patterns, k, line, lineIndex, languageId) ==
    IF k > Len(patterns) THEN <<>>
    ELSE MatchLoop(patterns[k], line, lineIndex, languageId, patterns[k].regex.lastIndex)
         \o ForEachPattern(patterns, k + 1, line, lineIndex, languageId)

\* the patterns are applied last to first
ExtractStringsFromLineReversed(line, lineIndex, languageId) ==
    LET patterns == GetStringPatterns(languageId) IN
    ForEachPattern([k \in 1..Len(patterns) |-> patterns[Len(patterns) + 1 - k]],
                   1, line, lineIndex, languageId)

ExtractStringsFromLine(line, lineIndex, languageId) ==
    ForEachPattern(GetStringPatterns(languageId), 1, line, lineIndex, languageId)

RECURSIVE ScanLines(_, _, _, _)
\* the for loop of detectStrings over lines[lineIndex .. upTo - 1]: what it
\* pushes on detectedStrings
ScanLines(lines, lineIndex, upTo, languageId) ==
    IF lineIndex >= upTo THEN <<>>
    ELSE ExtractStringsFromLine(lines[lineIndex + 1], lineIndex, languageId)
         \o ScanLines(lines, lineIndex + 1, upTo, languageId)

---------------------------------------------------------------------------
(* The documents of a session                                              *)

DocIds == {"d1", "d2"}

\* the texts a document of a session can hold
SessionTexts ==
    {" \"a b\"\nc d",
     "\"e f\""}

LanguageOf == [d \in DocIds |-> IF d = "d1" THEN "typescript" ELSE "csharp"]

SessionDocs ==
    {[d \in DocIds |-> [text |-> t[d], languageId |-> LanguageOf[d]]] :
        t \in [DocIds -> SessionTexts]}

---------------------------------------------------------------------------
(* StringDetector.detectStrings                                            *)

\* this.detectedStrings is left as the previous scan filled it
KeepDetectedStrings(held) == held

\* this.detectedStrings = []
ResetDetectedStrings(held) == <<>>

\* the catch block hands the exception on after logging it
CatchBlockRethrows(partial) ==
    [held |-> partial, returned |-> <<>>, errorLogged |-> TRUE, escaped |-> TRUE]

\* catch (error) { this.logger.error(...); return []; }: detectedStrings keeps
\* what the scan had pushed before the exception
CatchBlock(partial) ==
    [held |-> partial, returned |-> <<>>, errorLogged |-> TRUE, escaped |-> FALSE]

\* What the host may do to one detectStrings call: let it run to the end, or
\* (faults allowed) make it throw while line `scanned` is handled (getText,
\* split, extractStringsFromLine or push throws), the lines before it pushed.
\* The logger does not throw.
ScanFaults(document, mayThrow) ==
    LET n == Len(SplitLines(document.text)) IN
    {[threw |-> FALSE, scanned |-> n]}
        \cup (IF mayThrow THEN {[threw |-> TRUE, scanned |-> i] : i \in 0..(n - 1)}
              ELSE {})

\* detectStrings(document) with detectedStrings = held on entry: the value of
\* detectedStrings on exit, the value returned, whether an error was logged and
\* whether an exception left the call
DetectStrings(held, document, fault) ==
    LET lines == SplitLines(document.text)
        found == ResetDetectedStrings(held)
                     \o ScanLines(lines, 0, fault.scanned, document.languageId)
    IN  IF fault.threw
        THEN CatchBlock(found)
        ELSE [held |-> found, returned |-> found, errorLogged |-> FALSE, escaped |-> FALSE]

\* no detectStrings call yet
NoScan ==
    [called |-> FALSE, doc |-> "", text |-> "", languageId |-> "",
     threw |-> FALSE, scanned |-> 0, returned |-> <<>>, errorLogged |-> FALSE,
     escaped |-> FALSE, again |-> FALSE, before |-> <<>>]

\* history of a detectStrings call that follows the call recorded in scan: the
\* document it was given, how far the host let it run, what it returned; again:
\* the call before it ran to the end on the same text and languageId; before:
\* what that call returned
ScanRecord(doc, document, fault, r, scan) ==
    [called |-> TRUE, doc |-> doc, text |-> document.text,
     languageId |-> document.languageId, threw |-> fault.threw,
     scanned |-> fault.scanned, returned |-> r.returned,
     errorLogged |-> r.errorLogged, escaped |-> r.escaped,
     again |-> scan.called /\ ~scan.threw /\ scan.text = document.text
                   /\ scan.languageId = document.languageId,
     before |-> IF scan.called /\ ~scan.threw /\ scan.text = document.text
                       /\ scan.languageId = document.languageId
                THEN scan.returned ELSE <<>>]

---------------------------------------------------------------------------
(* The host: documents, editors, messages, timers                          *)

\* the clock runs for MaxTicks ticks of half the debounce delay
MaxTicks == 3
\* a selection lies in the first MaxSelection characters of a line
MaxSelection == 1
\* the transform flows that wait at a time
MaxFlows == 1
\* a bounded text is made of MaxTokens tokens at most
MaxTokens == 4
NoEditor == "none"
NoTimer == 0
DebounceMs == 1000
TickMs == DebounceMs \div 2

NoMessage == [kind |-> "none", message |-> "", count |-> 0]
Warning(message) == [kind |-> "warning", message |-> message, count |-> 0]
Error(message) == [kind |-> "error", message |-> message, count |-> 0]
\* `Detected ${stringCount} string(s) in the current file`
DetectedMessage(stringCount) ==
    [kind |-> "info", message |-> "Detected string(s) in the current file",
     count |-> stringCount]

\* a handle no pending timer has and detectionTimeout does not hold (setTimeout
\* never hands out a handle again)
FreshTimer ==
    CHOOSE id \in 1..(Cardinality(timers) + 2) :
        id # detectionTimeout /\ \A t \in timers : t.id # id

PendingDetections == {t \in timers : t.kind = "detect"}

\* the message the window shows after a call that showed the messages shown,
\* in that order, current being the one it showed before
Shows(current, shown) ==
    IF shown = <<>> THEN current ELSE shown[Len(shown)]

---------------------------------------------------------------------------
(* extension.ts: handleDetectStringsCommand                                *)

\* handleDetectStringsCommand() while the active editor is editor: every
\* outcome the host allows, as the values of detectedStrings, treeStale and
\* lastScan after the call and the messages it showed
HandleDetectStringsCommand(editor, held, stale, scan) ==
    IF editor = NoEditor
    THEN {[detectedStrings |-> held, treeStale |-> stale, shown |-> <<>>,
           lastScan |-> scan]}
    ELSE {LET r == DetectStrings(held, docs[editor], fault) IN
          [detectedStrings |-> r.held,
           \* stringTreeProvider.refresh() is skipped when detectStrings throws
           treeStale |-> IF r.escaped THEN stale ELSE TRUE,
           shown |-> IF r.escaped THEN <<Error("Failed to detect strings")>>
                     ELSE <<DetectedMessage(Len(r.held))>>,
           lastScan |-> ScanRecord(editor, docs[editor], fault, r, scan)]
          : fault \in ScanFaults(docs[editor], faults)}

\* the state an outcome of handleDetectStringsCommand leaves
DetectOutcome(o) ==
    /\ detectedStrings' = o.detectedStrings
    /\ treeStale' = o.treeStale
    /\ notification' = Shows(notification, o.shown)
    /\ lastScan' = o.lastScan

\* the call as a step: detectedStrings, treeStale, notification and lastScan change
DetectStep(editor) ==
    \E o \in HandleDetectStringsCommand(editor, detectedStrings, treeStale, lastScan) :
        DetectOutcome(o)

NoCommand ==
    [name |-> "", noEditor |-> FALSE, blank |-> FALSE, item |-> FALSE,
     warned |-> FALSE, started |-> FALSE, changed |-> FALSE]

\* history of the command invocations made without an active editor or with a
\* blank selection (an invocation with both leaves the history as it is): which
\* command, whether there was no active editor, whether the selection was
\* blank, whether it was given an item, whether one of the messages shown is a
\* warning, whether it started a transform flow, whether a document or
\* detectedStrings changed
CommandRecord(name, blank, item, shown) ==
    IF activeEditor # NoEditor /\ ~blank THEN lastCmd
    ELSE [name |-> name, noEditor |-> activeEditor = NoEditor, blank |-> blank,
          item |-> item,
          warned |-> \E i \in 1..Len(shown) : shown[i].kind = "warning",
          started |-> flows' # flows,
          changed |-> docs' # docs \/ detectedStrings' # detectedStrings]

\* command myext.detectStrings
DetectStringsCommand ==
    \E o \in HandleDetectStringsCommand(activeEditor, detectedStrings, treeStale,
                                        lastScan) :
        /\ DetectOutcome(o)
        /\ UNCHANGED <<docs, activeEditor, autoDetect, faults, detectionTimeout,
                       timers, now, treeItems, flows, debounce>>
        /\ lastCmd' = CommandRecord("detectStrings", FALSE, FALSE, o.shown)

---------------------------------------------------------------------------
(* extension.ts: the event listeners                                       *)

\* onDidChangeActiveTextEditor: the user shows another editor, or closes the last
ChangeActiveTextEditor(editor) ==
    /\ editor # activeEditor
    /\ activeEditor' = editor
    /\ IF autoDetect
       THEN DetectStep(editor)
       ELSE UNCHANGED <<detectedStrings, treeStale, notification, lastScan>>
    /\ UNCHANGED <<docs, autoDetect, faults, detectionTimeout, timers, now,
                   treeItems, flows, lastCmd, debounce>>

\* clearTimeout(handle) does nothing
ClearTimeoutSkipped(pending, handle) == pending

\* clearTimeout(handle)
ClearTimeout(pending, handle) == {t \in pending : t.id # handle}

\* setTimeout(() => handleDetectStringsCommand(), 1000); doc is the document
\* whose change sets the timer (history: the callback does not hold it)
DetectionTimer(id, doc) ==
    [id |-> id, due |-> now + DebounceMs, kind |-> "detect", doc |-> doc]

\* history of the debounce: whether a change has set the timer, the time of the
\* last change that did, whether a timer was pending when it came (a burst),
\* and the timer callbacks run since
NoDebounce == [armed |-> FALSE, editAt |-> 0, burst |-> FALSE, runs |-> 0]

\* onDidChangeTextDocument: the text of document doc becomes text
ChangeTextDocument(doc, text) ==
    /\ text # docs[doc].text
    /\ docs' = [docs EXCEPT ![doc].text = text]
    /\ IF autoDetect /\ doc = activeEditor
       THEN /\ timers' = ClearTimeout(timers, detectionTimeout)
                             \cup {DetectionTimer(FreshTimer, doc)}
            /\ detectionTimeout' = FreshTimer
            /\ debounce' = [armed |-> TRUE, editAt |-> now,
                            burst |-> PendingDetections # {}, runs |-> 0]
       ELSE UNCHANGED <<timers, detectionTimeout, debounce>>
    /\ UNCHANGED <<activeEditor, autoDetect, faults, detectedStrings, now, treeItems,
                   treeStale, notification, flows, lastScan, lastCmd>>

\* the callback of a detection timer runs, at its due time or later
DetectionTimerFires ==
    \E t \in PendingDetections :
        /\ t.due <= now
        /\ timers' = timers \ {t}
        /\ DetectStep(activeEditor)
        /\ debounce' = [debounce EXCEPT !.runs = @ + 1]
        /\ UNCHANGED <<docs, activeEditor, autoDetect, faults, detectionTimeout, now,
                       treeItems, flows, lastCmd>>

\* the user changes textTranslator.autoDetectStrings
SetAutoDetect ==
    /\ autoDetect' = ~autoDetect
    /\ UNCHANGED <<docs, activeEditor, faults, detectedStrings, detectionTimeout,
                   timers, now, treeItems, treeStale, notification, flows, lastScan,
                   lastCmd, debounce>>

\* the host's clock advances
Tick ==
    /\ now < MaxTicks * TickMs
    /\ now' = now + TickMs
    /\ UNCHANGED <<docs, activeEditor, autoDetect, faults, detectedStrings,
                   detectionTimeout, timers, treeItems, treeStale, notification,
                   flows, lastScan, lastCmd, debounce>>

---------------------------------------------------------------------------
(* stringTreeProvider.ts                                                   *)

\* createStringItems: one StringItem per detection
CreateStringItems(detected) ==
    [i \in 1..Len(detected) |->
        [label |-> detected[i].text,
         detectedString |-> detected[i],
         description |-> [line |-> detected[i].line + 1,
                          quoteType |-> detected[i].quoteType]]]

\* the host asks for the root rows: getChildren(undefined)
GetChildren ==
    /\ treeItems' = CreateStringItems(detectedStrings)
    /\ treeStale' = FALSE
    /\ UNCHANGED <<docs, activeEditor, autoDetect, faults, detectedStrings,
                   detectionTimeout, timers, now, notification, flows, lastScan,
                   lastCmd, debounce>>

---------------------------------------------------------------------------
(* extension.ts: the transform commands; translationManager.ts             *)

Min(a, b) == IF a < b THEN a ELSE b

\* the selections the user can have made in the document: a range of its first
\* line, MaxSelection characters at most from its start
Selections(document) ==
    LET m == Min(Len(SplitLines(document.text)[1]), MaxSelection) IN
    {r \in {[line |-> 0, start |-> a, end |-> b] : a \in 0..m, b \in 0..m} :
        r.start <= r.end}

\* selection.isEmpty ? '' : editor.document.getText(selection)
SelectedText(document, selection) ==
    IF selection.start = selection.end THEN ""
    ELSE Slice(SplitLines(document.text)[selection.line + 1],
               selection.start, selection.end)

\* translateText / enhanceText up to the first prompt (showQuickPick): the flow
\* waits for the user to pick a target language or an enhancement type
StartFlow(kind, text, editor, selection) ==
    [kind |-> kind, text |-> text, editor |-> editor, selection |-> selection,
     stage |-> "pickTarget"]

\* the selection commands go on without an editor check
SelectionCommandUnchecked(kind, editor, selection) ==
    [shown |-> <<>>, flows |-> flows \cup {StartFlow(kind, "", editor, selection)}]

\* handleTranslateCommand / handleEnhanceCommand with the active editor and its
\* selection: the message shown and the flows after it
SelectionCommand(kind, editor, selection) ==
    IF editor = NoEditor
    THEN [shown |-> <<Warning("No active editor found")>>, flows |-> flows]
    ELSE LET text == SelectedText(docs[editor], selection) IN
         IF Trim(text) = ""
         THEN [shown |-> <<Warning("Please select text to " \o kind)>>,
               flows |-> flows]
         ELSE [shown |-> <<>>,
               flows |-> flows \cup {StartFlow(kind, text, editor, selection)}]

\* the selection the command reads: none to read without an editor
SelectionInputs ==
    IF activeEditor = NoEditor THEN {[line |-> 0, start |-> 0, end |-> 0]}
    ELSE Selections(docs[activeEditor])

SelectionIsBlank(selection) ==
    activeEditor # NoEditor /\ Trim(SelectedText(docs[activeEditor], selection)) = ""

SelectionCommandStep(name, kind) ==
    \E selection \in SelectionInputs :
        LET o == SelectionCommand(kind, activeEditor, selection) IN
        /\ Cardinality(o.flows) <= MaxFlows
        /\ notification' = Shows(notification, o.shown)
        /\ flows' = o.flows
        /\ UNCHANGED <<docs, activeEditor, autoDetect, faults, detectedStrings,
                       detectionTimeout, timers, now, treeItems, treeStale, lastScan,
                       debounce>>
        /\ lastCmd' = CommandRecord(name, SelectionIsBlank(selection), FALSE, o.shown)

\* command myext.translateText
TranslateTextCommand == SelectionCommandStep("translateText", "translate")

\* command myext.enhanceText
EnhanceTextCommand == SelectionCommandStep("enhanceText", "enhance")

\* handleTranslateString / handleEnhanceString(stringItem); stringItem is <<>>
\* (undefined) or <<item>>
StringCommand(kind, editor, stringItem) ==
    IF stringItem = <<>> \/ stringItem[1].detectedString.text = ""
    THEN [shown |-> <<>>, flows |-> flows]
    ELSE IF editor = NoEditor
    THEN [shown |-> <<Warning("No active editor found")>>, flows |-> flows]
    ELSE LET d == stringItem[1].detectedString IN
         [shown |-> <<>>,
          flows |-> flows \cup
              {StartFlow(kind, d.text, editor,
                         [line |-> d.line, start |-> d.startChar, end |-> d.endChar])}]

\* what the command is invoked with: nothing (the command palette), or a row of
\* the tree (its context menu)
StringItemInputs == {<<>>} \cup {<<treeItems[i]>> : i \in 1..Len(treeItems)}

StringCommandStep(name, kind) ==
    \E stringItem \in StringItemInputs :
        LET o == StringCommand(kind, activeEditor, stringItem) IN
        /\ Cardinality(o.flows) <= MaxFlows
        /\ notification' = Shows(notification, o.shown)
        /\ flows' = o.flows
        /\ UNCHANGED <<docs, activeEditor, autoDetect, faults, detectedStrings,
                       detectionTimeout, timers, now, treeItems, treeStale, lastScan,
                       debounce>>
        /\ lastCmd' = CommandRecord(name, FALSE, stringItem # <<>>, o.shown)

\* command myext.translateString
TranslateStringCommand == StringCommandStep("translateString", "translate")

\* command myext.enhanceString
EnhanceStringCommand == StringCommandStep("enhanceString", "enhance")

\* the user dismisses the first prompt of a flow: if (!selectedLanguage) return
DismissPrompt ==
    \E f \in flows :
        /\ f.stage = "pickTarget"
        /\ flows' = flows \ {f}
        /\ UNCHANGED <<docs, activeEditor, autoDetect, faults, detectedStrings,
                       detectionTimeout, timers, now, treeItems, treeStale,
                       notification, lastScan, lastCmd, debounce>>

---------------------------------------------------------------------------
(* translationManager.ts: a transform flow after its first prompt          *)

\* the delay of performTranslation / performEnhancement
TransformDelayMs == 1000

\* textTranslator.targetLanguages and textTranslator.enhancementTypes as the
\* session's configuration has them
TargetLanguages == {"Spanish", "Esperanto"}
EnhancementTypes == {"Professional"}

TargetsOf(kind) == IF kind = "translate" THEN TargetLanguages ELSE EnhancementTypes

MockTranslations(text) ==
    [Spanish |-> "[ES] " \o text, French |-> "[FR] " \o text,
     German |-> "[DE] " \o text, Italian |-> "[IT] " \o text,
     Portuguese |-> "[PT] " \o text, Russian |-> "[RU] " \o text,
     Chinese |-> "[ZH] " \o text, Japanese |-> "[JA] " \o text]

\* mockTranslations[targetLanguage] || `[${targetLanguage}] ${text}`
PerformTranslation(text, targetLanguage) ==
    IF targetLanguage \in DOMAIN MockTranslations(text)
    THEN MockTranslations(text)[targetLanguage]
    ELSE "[" \o targetLanguage \o "] " \o text

\* the enhancers of the types the session's configuration lists
MockEnhancements(text) ==
    [Detailed |-> text \o " with additional context and explanation",
     Professional |-> "Professional version: " \o text]

\* enhancer ? enhancer(text) : text
PerformEnhancement(text, enhancementType) ==
    IF enhancementType \in DOMAIN MockEnhancements(text)
    THEN MockEnhancements(text)[enhancementType]
    ELSE text

\* the user picks a target language or an enhancement type: the flow goes on to
\* performTranslation / performEnhancement, which waits on a timer
PickTarget ==
    \E f \in flows, target \in TargetLanguages \cup EnhancementTypes :
        /\ f.stage = "pickTarget"
        /\ target \in TargetsOf(f.kind)
        /\ timers' = timers \cup {[id |-> FreshTimer, due |-> now + TransformDelayMs,
                                   kind |-> "transform", doc |-> f.editor]}
        /\ flows' = (flows \ {f}) \cup
               {[kind |-> f.kind, text |-> f.text, editor |-> f.editor,
                 selection |-> f.selection, stage |-> "transforming",
                 target |-> target, timer |-> FreshTimer]}
        /\ UNCHANGED <<docs, activeEditor, autoDetect, faults, detectedStrings,
                       detectionTimeout, now, treeItems, treeStale, notification,
                       lastScan, lastCmd, debounce>>

\* the timer of the delay runs: the transform returns its text and the flow
\* shows the prompt of showTranslationOptions / showEnhancementOptions
TransformTimerFires ==
    \E f \in flows, t \in timers :
        /\ f.stage = "transforming"
        /\ t.kind = "transform" /\ t.id = f.timer
        /\ t.due <= now
        /\ timers' = timers \ {t}
        /\ flows' = (flows \ {f}) \cup
               {[kind |-> f.kind, text |-> f.text, editor |-> f.editor,
                 selection |-> f.selection, stage |-> "pickAction",
                 target |-> f.target,
                 result |-> IF f.kind = "translate"
                            THEN PerformTranslation(f.text, f.target)
                            ELSE PerformEnhancement(f.text, f.target)]}
        /\ UNCHANGED <<docs, activeEditor, autoDetect, faults, detectedStrings,
                       detectionTimeout, now, treeItems, treeStale, notification,
                       lastScan, lastCmd, debounce>>

RECURSIVE Join(_)
\* lines.join('\n')
Join(lines) ==
    IF Len(lines) = 1 THEN lines[1]
    ELSE lines[1] \o "\n" \o Join(Tail(lines))

\* the range the document makes of a selection taken earlier (the host's
\* validateRange): a line past the end becomes the end of the last line, a
\* character past the end of its line the end of that line
ValidateRange(lines, selection) ==
    IF selection.line >= Len(lines)
    THEN [line |-> Len(lines) - 1, start |-> Len(lines[Len(lines)]),
          end |-> Len(lines[Len(lines)])]
    ELSE [line |-> selection.line,
          start |-> Min(selection.start, Len(lines[selection.line + 1])),
          end |-> Min(selection.end, Len(lines[selection.line + 1]))]

\* editor.document.getText(selection), as the document is now
GetText(document, selection) ==
    LET lines == SplitLines(document.text)
        r == ValidateRange(lines, selection)
    IN  Slice(lines[r.line + 1], r.start, r.end)

\* the text after editBuilder.replace(selection, with)
ReplaceRange(text, selection, with) ==
    LET lines == SplitLines(text)
        r == ValidateRange(lines, selection)
        line == lines[r.line + 1]
    IN  Join([lines EXCEPT ![r.line + 1] =
                 Slice(line, 0, r.start) \o with \o Slice(line, r.end, Len(line))])

\* the text after editBuilder.insert(selection.end, with)
InsertAtEnd(text, selection, with) ==
    ReplaceRange(text, [line |-> selection.line, start |-> selection.end,
                        end |-> selection.end], with)

\* editor.edit has given document doc the text text, and onDidChangeTextDocument
\* has run for it
EditApplied(doc, text) ==
    /\ docs' = [docs EXCEPT ![doc].text = text]
    /\ IF autoDetect /\ doc = activeEditor
       THEN /\ timers' = ClearTimeout(timers, detectionTimeout)
                             \cup {DetectionTimer(FreshTimer, doc)}
            /\ detectionTimeout' = FreshTimer
            /\ debounce' = [armed |-> TRUE, editAt |-> now,
                            burst |-> PendingDetections # {}, runs |-> 0]
       ELSE UNCHANGED <<timers, detectionTimeout, debounce>>

OutputOptions ==
    {"Replace original text", "Insert after original text", "Copy to clipboard",
     "Show in new document"}

\* the document openTextDocument({content, language}) makes; a session opens one
ScratchDoc == "untitled"

Info(message) == [kind |-> "info", message |-> message, count |-> 0]

\* ` // ${language}: ${translatedText}`
Annotation(f) == " // " \o f.target \o ": " \o f.result

\* `Original: ${editor.document.getText(selection)}\n\n${language} Translation:
\* ${translatedText}`, `... ${enhancementType} Version: ${enhancedText}`
ScratchContent(f) ==
    "Original: " \o GetText(docs[f.editor], f.selection) \o "\n\n" \o f.target
        \o (IF f.kind = "translate" THEN " Translation: " ELSE " Version: ")
        \o f.result

\* the user picks option at the prompt of flow f: the switch of
\* showTranslationOptions / showEnhancementOptions
ChooseOutput(f, option) ==
    /\ f.stage = "pickAction"
    /\ CASE option = "Replace original text" ->
              /\ EditApplied(f.editor,
                             ReplaceRange(docs[f.editor].text, f.selection, f.result))
              /\ flows' = flows \ {f}
              /\ UNCHANGED notification
         [] option = "Insert after original text" ->
              /\ EditApplied(f.editor,
                             InsertAtEnd(docs[f.editor].text, f.selection,
                                         Annotation(f)))
              /\ flows' = flows \ {f}
              /\ UNCHANGED notification
         [] option = "Copy to clipboard" ->
              /\ notification' =
                     Info(IF f.kind = "translate"
                          THEN "Translation copied to clipboard"
                          ELSE "Enhanced text copied to clipboard")
              /\ flows' = flows \ {f}
              /\ UNCHANGED <<docs, timers, detectionTimeout, debounce>>
         [] option = "Show in new document" ->
              /\ ScratchDoc \notin DOMAIN docs
              /\ docs' = [d \in DOMAIN docs \cup {ScratchDoc} |->
                             IF d = ScratchDoc
                             THEN [text |-> ScratchContent(f),
                                   languageId |-> "plaintext"]
                             ELSE docs[d]]
              /\ flows' = (flows \ {f}) \cup
                     {[kind |-> f.kind, text |-> f.text, editor |-> f.editor,
                       selection |-> f.selection, stage |-> "showDocument"]}
              /\ UNCHANGED <<notification, timers, detectionTimeout, debounce>>
    /\ UNCHANGED <<activeEditor, autoDetect, faults, detectedStrings, now, treeItems,
                   treeStale, lastScan, lastCmd>>

PickOutput == \E f \in flows, option \in OutputOptions : ChooseOutput(f, option)

\* the user dismisses the prompt: if (!selectedOption) return
DismissOutput ==
    \E f \in flows :
        /\ f.stage = "pickAction"
        /\ flows' = flows \ {f}
        /\ UNCHANGED <<docs, activeEditor, autoDetect, faults, detectedStrings,
                       detectionTimeout, timers, now, treeItems, treeStale,
                       notification, lastScan, lastCmd, debounce>>

\* vscode.window.showTextDocument(newDoc): the new document becomes the active
\* editor, and onDidChangeActiveTextEditor runs
ShowTextDocument ==
    \E f \in flows :
        /\ f.stage = "showDocument"
        /\ flows' = flows \ {f}
        /\ activeEditor' = ScratchDoc
        /\ IF autoDetect
           THEN DetectStep(ScratchDoc)
           ELSE UNCHANGED <<detectedStrings, treeStale, notification, lastScan>>
        /\ UNCHANGED <<docs, autoDetect, faults, detectionTimeout, timers, now,
                       treeItems, lastCmd, debounce>>

---------------------------------------------------------------------------
(* The editing session: documents change, editors are switched, the         *)
(* configuration is toggled, time passes; detection runs by command, on an *)
(* editor switch and from the debounce timer, and may throw.               *)

\* the state activate() leaves: nothing detected, no timer, and the initial
\* detection made when autoDetectStrings is set and an editor is active
Activated(documents, editor, auto, mayThrow) ==
    /\ docs = documents
    /\ activeEditor = editor
    /\ autoDetect = auto
    /\ faults = mayThrow
    /\ detectionTimeout = NoTimer
    /\ timers = {}
    /\ now = 0
    /\ treeItems = <<>>
    /\ flows = {}
    /\ lastCmd = NoCommand
    /\ debounce = NoDebounce
    /\ \E o \in HandleDetectStringsCommand(IF auto THEN editor ELSE NoEditor,
                                           <<>>, TRUE, NoScan) :
          /\ detectedStrings = o.detectedStrings
          /\ treeStale = o.treeStale
          /\ notification = Shows(NoMessage, o.shown)
          /\ lastScan = o.lastScan

Init ==
    \E documents \in SessionDocs, editor \in DocIds \cup {NoEditor}, auto \in BOOLEAN :
        Activated(documents, editor, auto, TRUE)

Next ==
    \/ DetectStringsCommand
    \/ \E editor \in DocIds \cup {NoEditor} : ChangeActiveTextEditor(editor)
    \/ \E doc \in DocIds, text \in SessionTexts : ChangeTextDocument(doc, text)
    \/ DetectionTimerFires
    \/ SetAutoDetect
    \/ Tick

Spec == Init /\ [][Next]_vars

---------------------------------------------------------------------------
(* The command session: the user invokes the commands, switches editors    *)
(* and looks at the tree; automatic detection is off.                      *)

\* the two documents hold different texts, the first one more lines
InitCommands ==
    \E documents \in SessionDocs, editor \in DocIds \cup {NoEditor} :
        /\ Len(SplitLines(documents["d1"].text)) > Len(SplitLines(documents["d2"].text))
        /\ Activated(documents, editor, FALSE, FALSE)

NextCommands ==
    \/ DetectStringsCommand
    \/ \E editor \in DocIds \cup {NoEditor} : ChangeActiveTextEditor(editor)
    \/ GetChildren
    \/ TranslateTextCommand
    \/ EnhanceTextCommand
    \/ TranslateStringCommand
    \/ EnhanceStringCommand
    \/ DismissPrompt

SpecCommands == InitCommands /\ [][NextCommands]_vars

---------------------------------------------------------------------------
(* The transform session: in the first editor the user enhances a          *)
(* selection or translates a row of the tree and answers the prompts of    *)
(* the flow, while the document of that editor changes, detection is run   *)
(* and time passes; automatic detection is off and the editors stay open.  *)

\* the first document is the active one and holds the shorter text
InitReplace ==
    \E documents \in SessionDocs :
        /\ Len(SplitLines(documents["d1"].text)) < Len(SplitLines(documents["d2"].text))
        /\ Activated(documents, "d1", FALSE, FALSE)

NextReplace ==
    \/ DetectStringsCommand
    \/ \E text \in SessionTexts : ChangeTextDocument("d1", text)
    \/ GetChildren
    \/ EnhanceTextCommand
    \/ TranslateStringCommand
    \/ DismissPrompt
    \/ PickTarget
    \/ TransformTimerFires
    \/ PickOutput
    \/ DismissOutput
    \/ ShowTextDocument
    \/ Tick

SpecReplace == InitReplace /\ [][NextReplace]_vars

---------------------------------------------------------------------------
(* Detection alone: one document of any bounded text and any languageId,   *)
(* scanned by command, again and again.                                    *)

\* the pieces the bounded texts are made of
Tokens ==
    {"\"", "'", "\"!!\"", "'!!'", BackTick \o "!!" \o BackTick, "\n", "\\", "@"}

RECURSIVE TextsOf(_)
\* the texts of exactly n tokens
TextsOf(n) ==
    IF n = 0 THEN {""}
    ELSE {t \o k : t \in TextsOf(n - 1), k \in Tokens}

TokenTexts == UNION {TextsOf(n) : n \in 0..MaxTokens}

TokenLanguages == {"typescript", "python", "csharp", "plaintext"}

\* texts of the kinds the documentation and the patterns name
ScenarioTexts ==
    {"const greeting = \"Hello, world!\";",
     "const greeting = \"Hello world!\";",
     "@\"a \"\"quoted\"\" word\"",
     BackTick \o "hi there" \o BackTick,
     "\"42\" \"x\" \"hello world\"",
     "s = \"\"\"ab cd\"\"\" + '''ef gh'''",
     "'it\\'s ok' \"say \\\"hi\\\" now\"\r\nprint('ab cd')\r\n",
     "\" a \" 'b ' \"a.txt\" \"#id\" \"k: v\" \"a == b\" \"f(x)\" \"  \""}

LanguageIds ==
    {"javascript", "typescript", "javascriptreact", "typescriptreact", "python",
     "csharp", "fsharp", "php", "plaintext"}

DetectInputs ==
    {[text |-> t, languageId |-> l] : t \in TokenTexts, l \in TokenLanguages}
        \cup {[text |-> t, languageId |-> l] : t \in ScenarioTexts, l \in LanguageIds}

InitDetect ==
    \E document \in DetectInputs :
        Activated([d \in DocIds |-> IF d = "d1" THEN document
                                    ELSE [text |-> "", languageId |-> "plaintext"]],
                  "d1", FALSE, FALSE)

NextDetect == DetectStringsCommand

SpecDetect == InitDetect /\ [][NextDetect]_vars

---------------------------------------------------------------------------
(* Properties of a scan (SpecDetect)                                       *)

\* the most recent detectStrings call ran to the end on text and languageId
Completed(text, languageId) ==
    /\ lastScan.called /\ ~lastScan.threw
    /\ lastScan.text = text /\ lastScan.languageId = languageId

\* the raw text of line number line of the most recently scanned document
ScannedLine(line) == SplitLines(lastScan.text)[line + 1]

\* the place of the pattern called name among the patterns applied for languageId
PatternRank(name, languageId) ==
    CHOOSE k \in 1..Len(GetStringPatterns(languageId)) :
        GetStringPatterns(languageId)[k].name = name

GreetingLine == "const greeting = \"Hello, world!\";"

\* C1: scanning the document whose only line is
\* const greeting = "Hello, world!"; with languageId typescript yields exactly
\* one detection: text Hello, world!, kind double, spanning the quoted substring
\* with both delimiters (17..32).
GreetingYieldsOneDetection ==
    Completed(GreetingLine, "typescript") =>
        lastScan.returned =
            << [text |-> "Hello, world!", line |-> 0, startChar |-> 17,
                endChar |-> 32, quoteType |-> "double",
                languageId |-> "typescript"] >>

\* C2 as stated: the sequence returned by detectStrings is sorted by line
\* ascending, then by startChar ascending within a line, and detections with
\* equal line and startChar are in pattern-application order.
SortedByLineThenStartChar ==
    (lastScan.called /\ ~lastScan.threw) =>
        \A i, j \in 1..Len(lastScan.returned) :
            i < j =>
                LET a == lastScan.returned[i]
                    b == lastScan.returned[j]
                IN  \/ a.line < b.line
                    \/ /\ a.line = b.line
                       /\ \/ a.startChar < b.startChar
                          \/ /\ a.startChar = b.startChar
                             /\ PatternRank(a.quoteType, a.languageId)
                                    < PatternRank(b.quoteType, b.languageId)

\* C2 (amended): the sequence returned by detectStrings is sorted by line
\* ascending, then within a line by pattern-application order (double, single,
\* then the dialect patterns), then by startChar ascending among the detections
\* of one pattern.
SortedByLineThenPattern ==
    (lastScan.called /\ ~lastScan.threw) =>
        \A i, j \in 1..Len(lastScan.returned) :
            i < j =>
                LET a == lastScan.returned[i]
                    b == lastScan.returned[j]
                    ra == PatternRank(a.quoteType, a.languageId)
                    rb == PatternRank(b.quoteType, b.languageId)
                IN  \/ a.line < b.line
                    \/ /\ a.line = b.line
                       /\ \/ ra < rb
                          \/ ra = rb /\ a.startChar < b.startChar

\* a scan returned, on one line, a detection of an earlier pattern that starts
\* to the right of a later detection of a later pattern, and detections on two
\* lines
LaterPatternStartsLeft ==
    /\ lastScan.called /\ ~lastScan.threw
    /\ \E i, j \in 1..Len(lastScan.returned) :
           /\ i < j
           /\ lastScan.returned[i].line = lastScan.returned[j].line
           /\ lastScan.returned[i].startChar > lastScan.returned[j].startChar
    /\ \E i, j \in 1..Len(lastScan.returned) :
           lastScan.returned[i].line < lastScan.returned[j].line

\* C3: every detection a scan emits has 0 <= startChar < endChar <= the length
\* of the raw text of its line (as split on line feeds, a trailing carriage
\* return included), and a text whose trimmed length is at least 2.
DetectionsWellFormed ==
    lastScan.called =>
        \A i \in 1..Len(detectedStrings) :
            LET d == detectedStrings[i] IN
            /\ 0 <= d.startChar
            /\ d.startChar < d.endChar
            /\ d.endChar <= Len(ScannedLine(d.line))
            /\ Len(Trim(d.text)) >= 2

\* a scan emitted a detection whose text is padded with white space and that
\* ends where its line ends
PaddedDetectionAtLineEnd ==
    /\ lastScan.called
    /\ \E i \in 1..Len(detectedStrings) :
           LET d == detectedStrings[i] IN
           d.text # Trim(d.text) /\ d.endChar = Len(ScannedLine(d.line))

\* C7: a detectStrings call that follows a call on the same text and languageId
\* returns the sequence that call returned: the same detections, in the same
\* order, with the same fields.
RescanReturnsTheSame ==
    (lastScan.called /\ ~lastScan.threw /\ lastScan.again) =>
        lastScan.returned = lastScan.before

\* a second scan of an unchanged document found several detections, two of
\* them matches of one pattern on one line
RescannedSeveral ==
    /\ lastScan.called /\ ~lastScan.threw /\ lastScan.again
    /\ lastScan.before # <<>>
    /\ \E i, j \in 1..Len(lastScan.returned) :
           /\ i < j
           /\ lastScan.returned[i].line = lastScan.returned[j].line
           /\ lastScan.returned[i].quoteType = lastScan.returned[j].quoteType

VerbatimLine == "@\"a \"\"quoted\"\" word\""

\* C8: scanning the line @"a ""quoted"" word" with languageId csharp yields one
\* detection of kind verbatim, whose text is a ""quoted"" word, the doubled
\* quotes kept.
VerbatimKeepsDoubledQuotes ==
    Completed(VerbatimLine, "csharp") =>
        /\ Cardinality({i \in 1..Len(lastScan.returned) :
                           lastScan.returned[i].quoteType = "verbatim"}) = 1
        /\ \A i \in 1..Len(lastScan.returned) :
               lastScan.returned[i].quoteType = "verbatim" =>
                   lastScan.returned[i] =
                       [text |-> "a \"\"quoted\"\" word", line |-> 0,
                        startChar |-> 0, endChar |-> 20,
                        quoteType |-> "verbatim", languageId |-> "csharp"]

\* the verbatim line was scanned as csharp and something was detected
VerbatimLineScanned ==
    Completed(VerbatimLine, "csharp") /\ lastScan.returned # <<>>

TemplateLine == BackTick \o "hi there" \o BackTick

EcmaScriptIds == {"javascript", "typescript", "javascriptreact", "typescriptreact"}

\* C9: the line holding hi there between back quotes yields a template
\* detection when languageId is javascript, typescript, javascriptreact or
\* typescriptreact, and no detection for any other languageId: there only the
\* base patterns and the patterns of that dialect are applied.
TemplateGatedByLanguage ==
    (lastScan.called /\ ~lastScan.threw /\ lastScan.text = TemplateLine) =>
        IF lastScan.languageId \in EcmaScriptIds
        THEN lastScan.returned =
                 << [text |-> "hi there", line |-> 0, startChar |-> 0,
                     endChar |-> 10, quoteType |-> "template",
                     languageId |-> lastScan.languageId] >>
        ELSE lastScan.returned = <<>>

\* the template line was scanned as typescriptreact and something was detected
TemplateLineScanned ==
    Completed(TemplateLine, "typescriptreact") /\ lastScan.returned # <<>>

RECURSIVE MatchesOf(_, _, _)
\* every match of regex on line from position from on, left to right, each
\* search starting where the match before ended
MatchesOf(regex, line, from) ==
    LET match == Exec(regex, line, from) IN
    IF match.index = -1 THEN <<>>
    ELSE <<match>> \o MatchesOf(regex, line, match.end)

\* the match is neither skipped as too short nor rejected as code-like
Accepted(match) ==
    ~TooShort(StringContent(match)) /\ ~LooksLikeCode(StringContent(match))

RECURSIVE Flatten(_)
\* the sequences of a sequence, one after the other
Flatten(seqs) ==
    IF seqs = <<>> THEN <<>> ELSE Head(seqs) \o Flatten(Tail(seqs))

\* the accepted matches of the k-th pattern of languageId on line, left to
\* right, as detections
AcceptedOfPattern(k, line, lineIndex, languageId) ==
    LET pattern == GetStringPatterns(languageId)[k]
        accepted == SelectSeq(MatchesOf(pattern.regex, line, 0), Accepted)
    IN  [i \in 1..Len(accepted) |->
            [text |-> StringContent(accepted[i]), line |-> lineIndex,
             startChar |-> accepted[i].index, endChar |-> accepted[i].end,
             quoteType |-> pattern.name, languageId |-> languageId]]

\* C11: within one scan the detections are emitted line after line; within a
\* line all accepted matches of the first pattern (double) left to right, then
\* all of the second (single), then those of each dialect pattern in the order
\* it was appended; a rejected match does not stop the scan of the later matches
\* of its pattern on the line.
EmittedInScanOrder ==
    (lastScan.called /\ ~lastScan.threw) =>
        LET lines == SplitLines(lastScan.text)
            languageId == lastScan.languageId
            n == Len(GetStringPatterns(languageId))
        IN  lastScan.returned =
                Flatten([l \in 1..Len(lines) |->
                    Flatten([k \in 1..n |->
                        AcceptedOfPattern(k, lines[l], l - 1, languageId)])])

\* a scan emitted a detection that lies to the right of a rejected match of its
\* own pattern, and a detection of another pattern on the same line
AcceptedAfterRejected ==
    /\ lastScan.called /\ ~lastScan.threw
    /\ \E i, j \in 1..Len(lastScan.returned) :
           LET d == lastScan.returned[i]
               e == lastScan.returned[j]
               regex == GetStringPatterns(d.languageId)[
                            PatternRank(d.quoteType, d.languageId)].regex
               matches == MatchesOf(regex, ScannedLine(d.line), 0)
           IN  /\ e.line = d.line /\ e.quoteType # d.quoteType
               /\ \E m \in 1..Len(matches) :
                      ~Accepted(matches[m]) /\ matches[m].index < d.startChar

---------------------------------------------------------------------------
(* Properties of the editing session (Spec)                                *)

\* C4: when something throws while detectStrings scans a document, the
\* exception is caught inside detectStrings and logged, the call returns an
\* empty list, and no exception reaches the caller: handleDetectStringsCommand
\* goes on to report a count, never 'Failed to detect strings'.
ScanFailureIsCaught ==
    (lastScan.called /\ lastScan.threw) =>
        /\ lastScan.returned = <<>>
        /\ lastScan.errorLogged
        /\ ~lastScan.escaped
        /\ notification.kind = "info"

\* a scan made after activation threw on a later line, after it had pushed
\* detections of the lines before
ScanThrewAfterDetections ==
    /\ lastScan.called /\ lastScan.threw
    /\ lastScan.scanned >= 1
    /\ detectedStrings # <<>>
    /\ now > 0

\* C12: after every detectStrings call, one that fails part-way through the
\* scan included, detectedStrings (what getDetectedStrings hands out, the tree
\* renders and the detect command counts) is the sequence the call returned;
\* after a failed scan it is empty, never a partial list of that scan.
HeldIsWhatTheCallReturned ==
    lastScan.called =>
        /\ detectedStrings = lastScan.returned
        /\ lastScan.threw => detectedStrings = <<>>
        /\ notification.kind = "info" => notification.count = Len(lastScan.returned)

\* at most one detection timer is pending, it is the one detectionTimeout
\* holds and it is due DebounceMs after the last qualifying change; since that
\* change the timer has either not run and is pending, or has run once and
\* none is pending
OneDetectionTimer ==
    /\ Cardinality(PendingDetections) <= 1
    /\ \A t \in PendingDetections :
           /\ t.id = detectionTimeout
           /\ t.due = debounce.editAt + DebounceMs
    /\ debounce.armed =>
           \/ debounce.runs = 0 /\ PendingDetections # {}
           \/ debounce.runs = 1 /\ PendingDetections = {}

\* a change of the active editor's document while autoDetectStrings is set
\* leaves exactly one pending timer, a new one, due DebounceMs later
ChangeReschedules ==
    (autoDetect /\ activeEditor # NoEditor
         /\ docs'[activeEditor] # docs[activeEditor]) =>
        \E t \in timers' :
            /\ PendingDetections' = {t}
            /\ t.due = now + DebounceMs
            /\ t \notin timers
            /\ detectionTimeout' = t.id

\* the timer callback runs DebounceMs or more after the last qualifying change
RunsAfterQuiescence ==
    debounce'.runs > debounce.runs =>
        /\ now >= debounce.editAt + DebounceMs
        /\ debounce.runs = 0

\* C5: while auto-detection is enabled every change of the active editor's
\* document cancels the pending detection timer and schedules a new one
\* DebounceMs later; at most one timer is pending at any time, and a burst of
\* changes, each less than DebounceMs after the one before, is followed by
\* exactly one timer-driven detection, DebounceMs or more after the last change.
DebouncedDetection ==
    /\ []OneDetectionTimer
    /\ [][ChangeReschedules /\ RunsAfterQuiescence]_vars

\* C13: a debounced detection, when its timer fires, scans the document whose
\* change set the timer, and it fires only while autoDetectStrings is still set:
\* a switch of the active editor, a manual detection or the configuration being
\* turned off between the change and the callback never makes the callback
\* scan another document or run a detection the configuration forbids.
TimerScansItsDocument ==
    [][\A t \in PendingDetections :
          (t \notin timers' /\ debounce'.runs > debounce.runs) =>
              /\ autoDetect
              /\ activeEditor = t.doc
              /\ lastScan'.called /\ lastScan'.doc = t.doc]_vars

\* a change came while a timer was pending, and the one detection of the burst
\* has run
BurstDetectedOnce ==
    /\ debounce.armed /\ debounce.burst
    /\ debounce.editAt > 0
    /\ debounce.runs = 1

---------------------------------------------------------------------------
(* Properties of the transform session (SpecReplace)                       *)

\* the delimiters a pattern puts around the text of a detection
Delimiters ==
    {<<"\"", "\"">>, <<"'", "'">>, <<BackTick, BackTick>>,
     <<"\"\"\"", "\"\"\"">>, <<"'''", "'''">>, <<"@\"", "\"">>}

\* span is text, alone or between the delimiters of a detection
HoldsOriginal(span, text) ==
    span = text \/ \E q \in Delimiters : span = q[1] \o text \o q[2]

\* C14: when the user picks 'Replace original text' at the end of a translate
\* or enhance flow, the span that is replaced still holds the text that was
\* passed to the transform (for a row of the tree: that text between its
\* delimiters); the changes of the document and the scans made while the flow
\* waited never make the replacement overwrite other text.
ReplaceOverwritesOriginal ==
    [][\A f \in flows :
          ChooseOutput(f, "Replace original text") =>
              HoldsOriginal(GetText(docs[f.editor], f.selection), f.text)]_vars

---------------------------------------------------------------------------
(* Properties of the command session (SpecCommands)                        *)

\* C6: after any sequence of detectStrings calls, on any documents,
\* detectedStrings holds exactly the detections of the most recent scan, nothing
\* of an earlier one, and the rows the tree provider has served since are the
\* rows of that result.
HeldIsLastScanOnly ==
    /\ ~lastScan.called => detectedStrings = <<>>
    /\ lastScan.called =>
           detectedStrings = ScanLines(SplitLines(lastScan.text), 0,
                                       lastScan.scanned, lastScan.languageId)
    /\ ~treeStale => treeItems = CreateStringItems(detectedStrings)

\* the tree was served the detections of one scan, and a later scan of another
\* document has put other detections in their place
ScanReplacedEarlierResult ==
    /\ lastScan.called
    /\ detectedStrings # <<>>
    /\ treeItems # <<>>
    /\ \A i \in 1..Len(treeItems) : \A j \in 1..Len(detectedStrings) :
           treeItems[i].detectedString # detectedStrings[j]

\* the most recent command was invoked without an active editor or, a selection
\* command, with a blank selection
InvokedWithoutContext ==
    lastCmd.name # "" /\ (lastCmd.noEditor \/ lastCmd.blank)

\* C10 as stated: each of the five commands, invoked with no active editor or
\* (the selection commands) with an empty or white-space selection, shows a
\* warning, is aborted, and changes neither a document nor detectedStrings.
NoContextAlwaysWarns ==
    InvokedWithoutContext =>
        lastCmd.warned /\ ~lastCmd.started /\ ~lastCmd.changed

\* C10 (amended): invoked with no active editor or with a blank selection, a
\* command starts no transform and changes neither a document nor
\* detectedStrings; it shows a warning exactly when it is translate selection or
\* enhance selection, or translate item or enhance item invoked with an item;
\* manual detect, and an item command invoked without an item, return silently.
NoContextAborts ==
    InvokedWithoutContext =>
        /\ ~lastCmd.started
        /\ ~lastCmd.changed
        /\ lastCmd.warned <=>
               \/ lastCmd.name \in {"translateText", "enhanceText"}
               \/ lastCmd.name \in {"translateString", "enhanceString"} /\ lastCmd.item

\* translate item was invoked on a row of the tree after the last editor closed
ItemCommandWithoutEditor ==
    /\ lastCmd.name = "translateString"
    /\ lastCmd.noEditor /\ lastCmd.item
    /\ lastCmd.warned

====
